---- MODULE Spec2Model ----
(***************************************************************************)
(* Shape arithmetic and graph assembly of UnetAudioSeparator               *)
(* (src/Models/UnetAudioSeparator.py).                                     *)
(*                                                                         *)
(* A tensor is represented by its static shape [batch, time, channels];    *)
(* the sample values play no part in get_padding or in the topology that   *)
(* get_output assembles.  One behaviour is one caller session: the config  *)
(* is fixed by __init__, get_padding is called on a desired output shape,  *)
(* and get_output is then called on an input of the returned input shape   *)
(* in a fresh graph (variables are created, not looked up).                *)
(*                                                                         *)
(* Python lists are 0-based and TLA+ sequences 1-based: list index k is    *)
(* sequence index k+1.  None is the empty sequence, a value v is <<v>>.    *)
(***************************************************************************)
EXTENDS Integers, Sequences, FiniteSets, TLC

VARIABLES
    cfg,            \* the fields __init__ copies out of model_config
    shape,          \* get_padding's argument: the desired output shape
    pc,             \* position in get_padding / get_output
    i,              \* loop variable of the for loop being executed
    rem,            \* get_padding: float rem, kept as the exact dyadic num / 2^exp
    x,              \* get_padding: lowest-resolution feature map length
    output_shape,   \* get_padding: running output time length
    input_shape,    \* get_padding: running input time length
    padding,        \* get_padding's return value (None until it returns)
    input,          \* get_output's input tensor
    current_layer,  \* get_output: current_layer
    enc_outputs,    \* get_output: list of cached encoder feature maps
    graph_variables,\* graph: weights created by tf.get_variable under "separator"
    thomson,        \* graph: collection filled by add_thomson_constraint
    skips,          \* history of the calls to Utils.crop_and_concat
    result,         \* get_output's return value (None until it returns)
    err             \* exception that ended the session, if any

vars == <<cfg, shape, pc, i, rem, x, output_shape, input_shape, padding, input,
          current_layer, enc_outputs, graph_variables, thomson, skips, result, err>>

padVars == <<rem, x, output_shape, input_shape, padding>>
buildVars == <<input, current_layer, enc_outputs, graph_variables, thomson, skips, result>>

-----------------------------------------------------------------------------
(* Bounds of the explored inputs *)

MaxLayers == 2
MaxFilterSize == 3
MaxT == 16

-----------------------------------------------------------------------------
(* Values *)

None == <<>>
NoError == [type |-> "None", at |-> "None"]
Raise(type, at) == [type |-> type, at |-> at]

Tensor(b, t, c) == [batch |-> b, time |-> t, channels |-> c]
NoTensor == Tensor(0, 0, 0)

Min(a, b) == IF a <= b THEN a ELSE b

-----------------------------------------------------------------------------
(* Configurations: model_config as read by __init__ *)

\* The configuration the specification's build example names; the explored
\* configurations vary it one group of fields at a time.
SpecInstance ==
    [ num_layers          |-> 2,
      num_initial_filters |-> 4,
      filter_size         |-> 3,
      merge_filter_size   |-> 3,
      input_filter_size   |-> 3,
      output_filter_size  |-> 3,
      upsampling          |-> "linear",
      output_type         |-> "direct",
      context             |-> TRUE,
      source_names        |-> <<"vocals", "accompaniment">>,
      num_channels        |-> 2,
      output_activation   |-> "tanh",
      mhe                 |-> FALSE ]

Layers == 1..MaxLayers
FilterSizes == 1..MaxFilterSize

\* every depth and every combination of the four kernel widths, both paddings
ShapeConfigs ==
    { [SpecInstance EXCEPT !.num_layers = n, !.context = c,
                           !.filter_size = f, !.merge_filter_size = m,
                           !.input_filter_size = fi, !.output_filter_size = fo] :
        n \in Layers, c \in BOOLEAN,
        f \in FilterSizes, m \in FilterSizes, fi \in FilterSizes, fo \in FilterSizes }

\* every output activation / output type (recognised or not) and the MHE switch
OutputConfigs ==
    { [SpecInstance EXCEPT !.num_layers = n, !.context = c,
                           !.output_activation = a, !.output_type = o, !.mhe = h] :
        n \in Layers, c \in BOOLEAN,
        a \in {"tanh", "linear", "relu"},
        o \in {"direct", "difference", "sum"},
        h \in BOOLEAN }

\* upsampling strategy, mono/stereo, base filter count, source list
TensorConfigs ==
    { [SpecInstance EXCEPT !.num_layers = n, !.context = c,
                           !.upsampling = u, !.num_channels = ch,
                           !.num_initial_filters = nf, !.source_names = s] :
        n \in Layers, c \in BOOLEAN,
        u \in {"linear", "learned"}, ch \in {1, 2}, nf \in {1, 4},
        s \in { <<"vocals", "accompaniment">>,
                <<"bass", "drums", "other", "vocals">> } }

Configs == ShapeConfigs \cup OutputConfigs \cup TensorConfigs

\* self.padding (line 35)
Padding(c) == IF c.context THEN "VALID" ELSE "SAME"

-----------------------------------------------------------------------------
(* get_padding: arithmetic *)

\* rem is a Python float.  Every value it takes is an integer divided by a
\* power of two, which binary floating point holds exactly, so it is kept
\* as the pair num / 2^exp.
Dyadic(n, e) == [num |-> n, exp |-> e]
DyAdd(r, k) == Dyadic(r.num + k * (2 ^ r.exp), r.exp)
DyHalf(r) == Dyadic(r.num, r.exp + 1)

\* line 56: rem = rem - self.output_filter_size + 1
ReverseOutputFilter(r, c) == DyAdd(DyAdd(r, -c.output_filter_size), 1)

\* lines 60-61: rem = rem + self.merge_filter_size - 1 ; rem = (rem + 1.) / 2.
ReverseUpsamplingBlock(r, c) ==
    DyHalf(DyAdd(DyAdd(DyAdd(r, c.merge_filter_size), -1), 1))

\* faulty variant of Ceil: rounds down (np.floor)
CeilRoundsDown(r) == r.num \div (2 ^ r.exp)

\* line 64: np.ceil(rem) as int64
Ceil(r) == -((-r.num) \div (2 ^ r.exp))

\* faulty variant of FeatureMapFeasible: accepts a feature map of length 1
FeatureMapFeasibleFromOne(v) == v >= 1

\* line 65: assert(x >= 2)
FeatureMapFeasible(v) == v >= 2

\* lines 76-77: upsampling, then conv
ForwardOutputBlock(o, c) == (2 * o - 1) - c.merge_filter_size + 1

\* faulty variant of ForwardInputBlock: inverts the decimation as 2L instead of 2L - 1
ForwardInputBlockDoubling(s, k, c) ==
    IF k < c.num_layers - 1
    THEN (2 * s) + c.filter_size - 1
    ELSE (2 * s) + c.input_filter_size - 1

\* lines 79-83: decimation, then conv (input_filter_size in the last pass)
ForwardInputBlock(s, k, c) ==
    IF k < c.num_layers - 1
    THEN (2 * s - 1) + c.filter_size - 1
    ELSE (2 * s - 1) + c.input_filter_size - 1

\* line 86: output_shape = output_shape - self.output_filter_size + 1
ForwardOutputFilter(o, c) == o - c.output_filter_size + 1

-----------------------------------------------------------------------------
(* Initial state: a configured separator, before get_padding is called *)

Init ==
    /\ cfg \in Configs
    /\ shape \in { Tensor(1, t, 2) : t \in 1..MaxT }
    /\ pc = "get_padding"
    /\ i = 0
    /\ rem = Dyadic(0, 0)
    /\ x = 0
    /\ output_shape = 0
    /\ input_shape = 0
    /\ padding = None
    /\ input = NoTensor
    /\ current_layer = NoTensor
    /\ enc_outputs = <<>>
    /\ graph_variables = <<>>
    /\ thomson = <<>>
    /\ skips = <<>>
    /\ result = None
    /\ err = NoError

-----------------------------------------------------------------------------
(* get_padding (lines 44-93) *)

\* line 93: without context the shape is returned with the configured channels
GetPaddingSame ==
    /\ pc = "get_padding"
    /\ ~cfg.context
    /\ padding' = << [ input_shape  |-> Tensor(shape.batch, shape.time, cfg.num_channels),
                       output_shape |-> Tensor(shape.batch, shape.time, cfg.num_channels) ] >>
    /\ pc' = "get_output"
    /\ UNCHANGED <<cfg, shape, i, rem, x, output_shape, input_shape, err>>
    /\ UNCHANGED buildVars

\* lines 51-56: start from the desired output length, undo the output filter
PadReverseOutput ==
    /\ pc = "get_padding"
    /\ cfg.context
    /\ rem' = ReverseOutputFilter(Dyadic(shape.time, 0), cfg)
    /\ i' = 0
    /\ pc' = "pad_upsampling_blocks"
    /\ UNCHANGED <<cfg, shape, x, output_shape, input_shape, padding, err>>
    /\ UNCHANGED buildVars

\* lines 59-61: one pass of the loop over the upsampling blocks
PadReverseBlock ==
    /\ pc = "pad_upsampling_blocks"
    /\ i < cfg.num_layers
    /\ rem' = ReverseUpsamplingBlock(rem, cfg)
    /\ i' = i + 1
    /\ UNCHANGED <<cfg, shape, pc, x, output_shape, input_shape, padding, err>>
    /\ UNCHANGED buildVars

\* lines 64-72: round up, check feasibility, seed both shapes from x
PadRound ==
    /\ pc = "pad_upsampling_blocks"
    /\ i = cfg.num_layers
    /\ x' = Ceil(rem)
    /\ IF FeatureMapFeasible(x')
       THEN /\ output_shape' = x'
            /\ input_shape' = x' + cfg.filter_size - 1
            /\ i' = 0
            /\ pc' = "pad_forward"
            /\ err' = err
       ELSE /\ pc' = "raised"
            /\ err' = Raise("AssertionError", "get_padding")
            /\ UNCHANGED <<output_shape, input_shape, i>>
    /\ UNCHANGED <<cfg, shape, rem, padding>>
    /\ UNCHANGED buildVars

\* lines 75-83: one pass of the loop from the centre feature map outwards
PadForwardBlock ==
    /\ pc = "pad_forward"
    /\ i < cfg.num_layers
    /\ output_shape' = ForwardOutputBlock(output_shape, cfg)
    /\ input_shape' = ForwardInputBlock(input_shape, i, cfg)
    /\ i' = i + 1
    /\ UNCHANGED <<cfg, shape, pc, rem, x, padding, err>>
    /\ UNCHANGED buildVars

\* lines 85-91: output filter, then wrap both lengths with batch and channels
PadReturn ==
    /\ pc = "pad_forward"
    /\ i = cfg.num_layers
    /\ output_shape' = ForwardOutputFilter(output_shape, cfg)
    /\ padding' = << [ input_shape  |-> Tensor(shape.batch, input_shape, cfg.num_channels),
                       output_shape |-> Tensor(shape.batch, output_shape', cfg.num_channels) ] >>
    /\ pc' = "get_output"
    /\ UNCHANGED <<cfg, shape, i, rem, x, input_shape, err>>
    /\ UNCHANGED buildVars


-----------------------------------------------------------------------------
(* get_output: shapes of the operations it applies *)

\* lines 117, 134: number of filters of down_conv_k (k = num_layers: last layer)
DownFilters(k, c) == c.num_initial_filters + (c.num_initial_filters * k)

\* line 170: number of filters of up_conv_k
UpFilters(k, c) == c.num_initial_filters + (c.num_initial_filters * (c.num_layers - k - 1))

\* lines 127, 144, 180: tf.nn.conv1d, stride 1; "out = in - filter + 1" when VALID
Conv1dLen(len, k, c) == IF Padding(c) = "VALID" THEN len - k + 1 ELSE len

\* line 130: current_layer[:,::2,:]; "out = (in-1)/2 + 1"
Decimate(len) == (len - 1) \div 2 + 1

\* faulty variant of ResizeBilinearLen: the context formula in both modes
ResizeBilinearLenAlwaysAligned(len, c) == len * 2 - 1

\* lines 157-160: target length handed to tf.image.resize_bilinear
ResizeBilinearLen(len, c) == IF c.context THEN len * 2 - 1 ELSE len * 2

\* line 155: Models.InterpolationLayer.learned_interpolation_layer doubles the
\* time dimension by inserting one sample between neighbours
LearnedInterpolationLen(len, c) == IF c.context THEN len * 2 - 1 ELSE len * 2

\* lines 153-160
UpsampleLen(len, c) ==
    IF c.upsampling = "learned"
    THEN LearnedInterpolationLen(len, c)
    ELSE ResizeBilinearLen(len, c)

\* faulty variant of SkipIndex: enc_outputs[k], creation order
SkipIndexForward(k, encs) == k

\* lines 165, 166: enc_outputs[-k-1], as a 0-based list index
SkipIndex(k, encs) == Len(encs) - k - 1

\* line 165: the assertion on the skip connection
SkipAssertion(skip, up, c) == skip.time = up.time \/ c.context

\* Utils.crop_and_concat(x1, x2, match_feature_dim=False): centre-crop the
\* longer tensor to the shorter one's length, concatenate along channels
CropAndConcat(x1, x2) ==
    Tensor(x2.batch, Min(x1.time, x2.time), x1.channels + x2.channels)

\* Utils.crop(tensor, target_shape, match_feature_dim=False)
Crop(tensor, target) == Tensor(tensor.batch, Min(tensor.time, target.time), tensor.channels)

\* a weight tensor W created in variable scope <<kind, k>>
Weight(kind, k, width, in_channels, n_filt) ==
    [scope |-> <<kind, k>>, shape |-> <<width, in_channels, n_filt>>]

\* lines 123-124, 140-141, 176-177: add_thomson_constraint(W, n_filt, ...) if self.mhe
WithThomson(coll, w, n_filt, c) ==
    IF c.mhe THEN Append(coll, [scope |-> w.scope, n_filt |-> n_filt]) ELSE coll

\* the tensor library rejects a convolution whose output length would be
\* negative and a resize to a non-positive length
ConvDefined(len, k, c) == Conv1dLen(len, k, c) >= 0
ResizeDefined(len, c) == UpsampleLen(len, c) >= 1

SourceNames(c) == { c.source_names[k] : k \in 1..Len(c.source_names) }

\* Models.OutputLayer.independent_outputs: one projection of width
\* output_filter_size to num_channels channels per source name
IndependentOutputs(merged, c) ==
    [ name \in SourceNames(c) |->
        Tensor(merged.batch, Conv1dLen(merged.time, c.output_filter_size, c), c.num_channels) ]

\* Models.OutputLayer.difference_output: one output per source name, the
\* last one the cropped input minus the sum of the others
DifferenceOutput(cropped_input, merged, c) ==
    [ name \in SourceNames(c) |->
        Tensor(cropped_input.batch, Conv1dLen(merged.time, c.output_filter_size, c),
               c.num_channels) ]

-----------------------------------------------------------------------------
(* get_output (lines 96-202) *)

\* the caller feeds get_output a tensor of the input shape get_padding returned;
\* lines 107-109
CallGetOutput ==
    /\ pc = "get_output"
    /\ input' = padding[1].input_shape
    /\ current_layer' = padding[1].input_shape
    /\ enc_outputs' = <<>>
    /\ i' = 0
    /\ pc' = "down_conv"
    /\ UNCHANGED <<cfg, shape, err, graph_variables, thomson, skips, result>>
    /\ UNCHANGED padVars

\* lines 112-130: one pass of the down-convolution loop
DownConv ==
    /\ pc = "down_conv"
    /\ i < cfg.num_layers
    /\ LET n_filt == DownFilters(i, cfg)
           W == Weight("down_conv", i, cfg.filter_size, current_layer.channels, n_filt)
           conv == Tensor(current_layer.batch,
                          Conv1dLen(current_layer.time, cfg.filter_size, cfg), n_filt)
       IN  /\ graph_variables' = Append(graph_variables, W)
           /\ thomson' = WithThomson(thomson, W, n_filt, cfg)
           /\ IF ConvDefined(current_layer.time, cfg.filter_size, cfg)
              THEN /\ enc_outputs' = Append(enc_outputs, conv)
                   /\ current_layer' = Tensor(conv.batch, Decimate(conv.time), n_filt)
                   /\ i' = i + 1
                   /\ UNCHANGED <<pc, err>>
              ELSE /\ pc' = "raised"
                   /\ err' = Raise("ValueError", "get_output")
                   /\ UNCHANGED <<enc_outputs, current_layer, i>>
    /\ UNCHANGED <<cfg, shape, input, skips, result>>
    /\ UNCHANGED padVars

\* lines 133-145: last layer of the downsampling path, no decimation
LastDownConv ==
    /\ pc = "down_conv"
    /\ i = cfg.num_layers
    /\ LET n_filt == DownFilters(cfg.num_layers, cfg)
           W == Weight("down_conv", cfg.num_layers, cfg.filter_size,
                       current_layer.channels, n_filt)
       IN  /\ graph_variables' = Append(graph_variables, W)
           /\ thomson' = WithThomson(thomson, W, n_filt, cfg)
           /\ IF ConvDefined(current_layer.time, cfg.filter_size, cfg)
              THEN /\ current_layer' =
                        Tensor(current_layer.batch,
                               Conv1dLen(current_layer.time, cfg.filter_size, cfg), n_filt)
                   /\ i' = 0
                   /\ pc' = "up_conv"
                   /\ err' = err
              ELSE /\ pc' = "raised"
                   /\ err' = Raise("ValueError", "get_output")
                   /\ UNCHANGED <<current_layer, i>>
    /\ UNCHANGED <<cfg, shape, input, enc_outputs, skips, result>>
    /\ UNCHANGED padVars

\* lines 150-181: one pass of the up-convolution loop
UpConv ==
    /\ pc = "up_conv"
    /\ i < cfg.num_layers
    /\ LET up == Tensor(current_layer.batch, UpsampleLen(current_layer.time, cfg),
                        current_layer.channels)
           index == SkipIndex(i, enc_outputs)
           skip == enc_outputs[index + 1]
           merged == CropAndConcat(skip, up)
           n_filt == UpFilters(i, cfg)
           W == Weight("up_conv", i, cfg.merge_filter_size, merged.channels, n_filt)
       IN  IF ~ResizeDefined(current_layer.time, cfg)
           THEN /\ pc' = "raised"
                /\ err' = Raise("ValueError", "get_output")
                /\ UNCHANGED <<current_layer, i, skips, graph_variables, thomson>>
           ELSE IF ~SkipAssertion(skip, up, cfg)
           THEN /\ pc' = "raised"
                /\ err' = Raise("AssertionError", "get_output")
                /\ UNCHANGED <<current_layer, i, skips, graph_variables, thomson>>
           ELSE /\ skips' = Append(skips, [ from |-> "enc_outputs", index |-> index,
                                            x1 |-> skip, x2 |-> up, n_filt |-> n_filt ])
                /\ graph_variables' = Append(graph_variables, W)
                /\ thomson' = WithThomson(thomson, W, n_filt, cfg)
                /\ IF ConvDefined(merged.time, cfg.merge_filter_size, cfg)
                   THEN /\ current_layer' =
                             Tensor(merged.batch,
                                    Conv1dLen(merged.time, cfg.merge_filter_size, cfg), n_filt)
                        /\ i' = i + 1
                        /\ UNCHANGED <<pc, err>>
                   ELSE /\ pc' = "raised"
                        /\ err' = Raise("ValueError", "get_output")
                        /\ UNCHANGED <<current_layer, i>>
    /\ UNCHANGED <<cfg, shape, input, enc_outputs, result>>
    /\ UNCHANGED padVars

\* lines 183-202: last concatenation, output activation, output layer
OutputLayer ==
    /\ pc = "up_conv"
    /\ i = cfg.num_layers
    /\ LET merged == CropAndConcat(input, current_layer)
       IN  /\ skips' = Append(skips, [ from |-> "input", index |-> 0,
                                       x1 |-> input, x2 |-> current_layer,
                                       n_filt |-> current_layer.channels ])
           /\ current_layer' = merged
           /\ IF cfg.output_activation \notin {"tanh", "linear"}
              THEN /\ pc' = "raised"
                   /\ err' = Raise("NotImplementedError", "get_output")
                   /\ result' = result
              ELSE IF cfg.output_type \notin {"direct", "difference"}
              THEN /\ pc' = "raised"
                   /\ err' = Raise("NotImplementedError", "get_output")
                   /\ result' = result
              ELSE IF ~ConvDefined(merged.time, cfg.output_filter_size, cfg)
              THEN /\ pc' = "raised"
                   /\ err' = Raise("ValueError", "get_output")
                   /\ result' = result
              ELSE /\ pc' = "returned"
                   /\ err' = err
                   /\ result' =
                        IF cfg.output_type = "direct"
                        THEN << IndependentOutputs(merged, cfg) >>
                        ELSE << DifferenceOutput(Crop(input, merged), merged, cfg) >>
    /\ UNCHANGED <<cfg, shape, i, input, enc_outputs, graph_variables, thomson>>
    /\ UNCHANGED padVars

-----------------------------------------------------------------------------

Next ==
    \/ GetPaddingSame
    \/ PadReverseOutput
    \/ PadReverseBlock
    \/ PadRound
    \/ PadForwardBlock
    \/ PadReturn
    \/ CallGetOutput
    \/ DownConv
    \/ LastDownConv
    \/ UpConv
    \/ OutputLayer

Spec == Init /\ [][Next]_vars

-----------------------------------------------------------------------------
(* Properties *)

GetPaddingReturned == padding # None
GetPaddingRaised == err = Raise("AssertionError", "get_padding")
GetOutputReturned == pc = "returned"
DecoderSkips == { k \in 1..Len(skips) : skips[k].from = "enc_outputs" }

\* C1: in context mode, get_output fed an input of the length get_padding
\* returned produces outputs of exactly the output length get_padding returned.
C1_BuildReproducesPredictedOutput ==
    (cfg.context /\ GetOutputReturned) =>
        \A name \in DOMAIN result[1] :
            result[1][name].time = padding[1].output_shape.time

\* C2: in context mode, the output length get_padding returns is never
\* smaller than the desired output length.
C2_OutputCoversDesired ==
    (cfg.context /\ GetPaddingReturned) =>
        padding[1].output_shape.time >= shape.time

\* C3: for the configuration of the build example and desired length 1,
\* get_output on the input length get_padding returned completes with one
\* output per source name (two), each of time length 1 and 2 channels.
C3_ExampleBuildCompletes ==
    (cfg = SpecInstance /\ shape.time = 1 /\ pc \in {"returned", "raised"}) =>
        /\ pc = "returned"
        /\ DOMAIN result[1] = SourceNames(cfg)
        /\ Cardinality(DOMAIN result[1]) = 2
        /\ \A name \in DOMAIN result[1] :
              /\ result[1][name].time = shape.time
              /\ result[1][name].channels = 2

\* The bottleneck length as C4 words it, in units of 1 / 2^num_layers so that
\* every halving is exact: subtract output_filter_size - 1, then num_layers
\* times add merge_filter_size - 1 and map rem to (rem + 1) / 2.
RECURSIVE ScaledBackward(_, _, _)
ScaledBackward(k, T, c) ==
    IF k = 0
    THEN (T - (c.output_filter_size - 1)) * (2 ^ c.num_layers)
    ELSE (ScaledBackward(k - 1, T, c)
            + (c.merge_filter_size - 1) * (2 ^ c.num_layers)
            + (2 ^ c.num_layers)) \div 2

BackwardBottleneck(T, c) ==
    LET scaled == ScaledBackward(c.num_layers, T, c)
        unit == 2 ^ c.num_layers
    IN  IF scaled % unit = 0 THEN scaled \div unit ELSE scaled \div unit + 1

RoundingDone == pc \notin {"get_padding", "pad_upsampling_blocks"}

\* C4: in context mode get_padding raises, returning no shapes, exactly when
\* the bottleneck length derived backward from the desired length is below 2;
\* otherwise it goes on with that very length (no clamping).
C4_InfeasibleExactlyBelowTwo ==
    (cfg.context /\ RoundingDone) =>
        /\ x = BackwardBottleneck(shape.time, cfg)
        /\ GetPaddingRaised <=> x < 2
        /\ GetPaddingRaised => (padding = None /\ pc = "raised")
        /\ (~GetPaddingRaised /\ pc # "pad_forward") => GetPaddingReturned

C4_Witness ==
    /\ cfg.context
    /\ GetPaddingRaised
    /\ x = 1
    /\ padding = None

\* C5: a get_output call that fails on an unsupported output activation or
\* output type returns nothing and has registered no weight and no penalty.
C5_FailedBuildRegistersNothing ==
    err = Raise("NotImplementedError", "get_output") =>
        /\ result = None
        /\ graph_variables = <<>>
        /\ thomson = <<>>

C7_ReturnedShapesRealisable ==
    cfg.context =>
        /\ pc = "pad_forward" => output_shape >= 1
        /\ GetPaddingReturned =>
              /\ padding[1].output_shape.time >= 1
              /\ padding[1].input_shape.time >= padding[1].output_shape.time

RECURSIVE StagewiseCeil(_, _, _)
StagewiseCeil(k, T, c) ==
    IF k = 0
    THEN T - c.output_filter_size + 1
    ELSE LET r == StagewiseCeil(k - 1, T, c) + c.merge_filter_size - 1 + 1
         IN  IF r % 2 = 0 THEN r \div 2 ELSE r \div 2 + 1

\* C9: the bottleneck length get_padding obtains by rounding up once, after
\* the last stage, equals the one obtained by rounding up at every stage.
C9_RoundOnceEqualsRoundEveryStage ==
    (cfg.context /\ RoundingDone) =>
        x = StagewiseCeil(cfg.num_layers, shape.time, cfg)

C9_Witness ==
    /\ cfg.context
    /\ RoundingDone
    /\ cfg.num_layers >= 2
    /\ rem.num % (2 ^ rem.exp) # 0
    /\ rem.num % 2 # 0
    /\ x = StagewiseCeil(cfg.num_layers, shape.time, cfg)

\* C10: the encoder appends one feature map per encoder layer, before its
\* decimation, and none for the bottleneck; decoder stage k takes entry
\* num_layers-1-k, so the entries are taken in reverse order of creation,
\* each once, and stage k produces as many channels as the entry it took has.
C10_TraceConsumedInReverse ==
    /\ pc = "down_conv" =>
          /\ Len(enc_outputs) = i
          /\ i > 0 => current_layer.time = Decimate(enc_outputs[i].time)
    /\ pc \in {"up_conv", "returned"} => Len(enc_outputs) = cfg.num_layers
    /\ \A k \in DecoderSkips :
          /\ k <= cfg.num_layers
          /\ skips[k].index = cfg.num_layers - 1 - (k - 1)
          /\ skips[k].x1 = enc_outputs[skips[k].index + 1]
          /\ skips[k].n_filt = cfg.num_initial_filters * (cfg.num_layers - (k - 1))
          /\ skips[k].n_filt = skips[k].x1.channels
    /\ GetOutputReturned => Cardinality(DecoderSkips) = cfg.num_layers

C10_Witness ==
    /\ GetOutputReturned
    /\ cfg.num_layers >= 2
    /\ Cardinality(DecoderSkips) = cfg.num_layers
    /\ skips[1].index = cfg.num_layers - 1
    /\ skips[cfg.num_layers].index = 0

====
